---- MODULE Spec2Model ----
(***************************************************************************)
(* Lead-to-Revenue Catalyst: the lead ingestion service, the BullMQ lead   *)
(* worker with its dead-letter path, and the MCP action layer (grounding   *)
(* gate, tiered rate limiter, safety guard, tool registry, CRM executors). *)
(***************************************************************************)
EXTENDS Integers, Sequences, FiniteSets, TLC

VARIABLES
  now,          \* wall clock, in seconds (Date.now() / 1000)
  redis,        \* limiter keys of the shared store: window key -> [count, expireAt]
  redisClient,  \* REDIS_URL is set: MCPRateLimiter gets a REDIS_CLIENT, DlqEventListener subscribes
  crmProvider,  \* CRM_PROVIDER: which MCPExecutor the registry dispatches to
  nextUuid,     \* uuidv4() source: the number of ids drawn so far
  syncLog,      \* crm_sync_logs table, in insertion order
  mcpCalls,     \* number of processAfterGrounding invocations so far
  mcpLast,      \* the last processAfterGrounding invocation: its input and outcome
  limLast,      \* the last direct checkLimit call: its key, window and answer
  limCalls,     \* number of direct checkLimit calls so far
  limAllowed,   \* per window key, how many checkLimit calls answered allowed = true
  limPending,   \* checkLimit calls in flight, per window key: key computed, transaction not yet run
  limLate,      \* window keys on which a transaction ran after the window had ended
  leads,        \* leads table: row id -> Lead
  req,          \* the LeadsService.create calls in flight: position, dto and outcome
  jobs,         \* lead-processing queue: job id -> job
  failedEvents, \* 'failed' events of lead-processing not yet delivered to the listener
  dlq,          \* lead-processing-dlq: its jobs, in insertion order
  breakers,     \* CircuitBreakerFactory.breakers: the names a breaker exists for
  regLast,      \* the last direct MCPRegistryService.execute call: its input and outcome
  aiLast,       \* the last direct AiService.analyzeLead call: its input and outcome
  aiCalls,      \* number of direct analyzeLead calls so far
  tools,        \* MCPRegistryService.tools: the names a tool is registered under
  keyLast,      \* the last direct IdempotencyService key generation: its input and the keys
  keyCalls,     \* number of direct key generations so far
  instances,    \* number of application instances running against the same queues
  peerEvents    \* 'failed' events not yet delivered to the listener of the second instance

mcpVars == <<now, redis, redisClient, crmProvider, nextUuid, syncLog, mcpCalls, mcpLast>>
limVars == <<limLast, limCalls, limAllowed, limPending, limLate>>
ingestVars == <<leads, req>>
peerVars == <<instances, peerEvents>>
queueVars == <<jobs, failedEvents, dlq, peerVars>>
utilVars == <<breakers, regLast, aiLast, aiCalls, tools, keyLast, keyCalls>>
vars == <<mcpVars, limVars, ingestVars, queueVars, utilVars>>

(* ---------------------------------------------------------------------- *)
(* Optional values (undefined / null)                                      *)
(* ---------------------------------------------------------------------- *)
None == <<>>
Some(x) == <<x>>
IsSome(o) == o # <<>>
Val(o) == o[1]

(* ---------------------------------------------------------------------- *)
(* Bounds of the model                                                     *)
(* ---------------------------------------------------------------------- *)
\* Limits of the three tiers (RateLimitConfig is injectable; the end-to-end
\* scenario of the specification drives the limiter with leadLimit = 2).
PerLeadLimit == 2
PerAccountLimit == 1
GlobalLimit == 4
\* The clock advances in steps of ClockStep seconds, up to MaxNow.
ClockStep == 30
MaxNow == 60
\* Direct invocations of processAfterGrounding / checkLimit that are explored.
MaxInvocations == 3
\* Direct checkLimit calls that are explored.
MaxLimiterCalls == 5
\* LeadsService.create calls that are explored.
MaxRequests == 3
\* Direct MCPRegistryService.execute calls that are explored.
MaxRegistryCalls == 3
\* Direct AiService.analyzeLead calls that are explored.
MaxAnalyses == 2
\* Direct IdempotencyService key generations that are explored, and the
\* longest email and campaign id handed to them, in characters.
MaxKeyCalls == 1
MaxKeyLen == 2

(* ---------------------------------------------------------------------- *)
(* Program constants                                                       *)
(* ---------------------------------------------------------------------- *)
WindowSeconds == 60
\* attempts of a lead-processing job (LeadsService.create)
MaxAttempts == 5
\* maxStalledCount of the worker (the queue library's default)
MaxStalledCount == 1

(* ---------------------------------------------------------------------- *)
(* Data                                                                    *)
(* ---------------------------------------------------------------------- *)
Email(l, d) == [local |-> l, domain |-> d]
NoEmail == [local |-> "", domain |-> ""]
EmailStr(e) == IF e = NoEmail THEN "" ELSE e.local \o "@" \o e.domain

GroundingStatus == {"VALID", "DOWNGRADED", "REJECTED"}

Stripe ==
  [name |-> "Stripe", domain |-> "stripe.com", employees |-> "5000-10000",
   industry |-> "Fintech", techStack |-> <<"Ruby", "React", "AWS">>, geo |-> "San Francisco, CA"]

(* ---------------------------------------------------------------------- *)
(* EnrichmentService and AiService                                         *)
(* ---------------------------------------------------------------------- *)
\* String.prototype.toLowerCase on the strings of the model that hold capitals.
LowerStr(s) ==
  CASE s = "Stripe.com" -> "stripe.com"
    [] s = "John" -> "john"
    [] s = "Fintech" -> "fintech"
    [] s = "Fin" -> "fin"
    [] s = "Healthcare" -> "healthcare"
    [] s = "Ruby,React,AWS" -> "ruby,react,aws"
    [] s = "Ruby" -> "ruby"
    [] OTHER -> s

\* The characters of the lower-case strings evidence values are compared as.
Chars(s) ==
  CASE s = "fintech" -> <<"f", "i", "n", "t", "e", "c", "h">>
    [] s = "fin" -> <<"f", "i", "n">>
    [] s = "healthcare" -> <<"h", "e", "a", "l", "t", "h", "c", "a", "r", "e">>
    [] s = "ruby,react,aws" -> <<"r", "u", "b", "y", ",", "r", "e", "a", "c", "t", ",", "a", "w", "s">>
    [] s = "ruby" -> <<"r", "u", "b", "y">>
    [] OTHER -> <<>>

\* String.prototype.includes
Includes(hay, needle) ==
  \E i \in 0..(Len(Chars(hay)) - Len(Chars(needle))) :
    SubSeq(Chars(hay), i + 1, i + Len(Chars(needle))) = Chars(needle)

\* MockEnrichmentProvider.mockDb[domain.toLowerCase()] || null
MockDb(domain) == IF LowerStr(domain) = "stripe.com" THEN Some(Stripe) ELSE None

\* EnrichmentService.getCompanyByEmail
getCompanyByEmail(email) == IF email = NoEmail THEN None ELSE MockDb(email.domain)

GroundingSource == {"SALESFORCE", "MARKETO", "PRODUCT", "ENRICHMENT", "COMPUTED"}
\* Variant for sensitivity analysis: no source counts as behavioural.
BehavioralNone == {}

BehavioralSources == {"PRODUCT", "MARKETO", "COMPUTED", "SALESFORCE"}

\* String(enrichmentData[fieldName]); an array prints as its items joined by commas.
TruthValue(enr, fieldName) ==
  IF fieldName \notin DOMAIN enr THEN None
  ELSE IF fieldName = "techStack" THEN Some("Ruby,React,AWS")
  ELSE IF enr[fieldName] = "" THEN None
  ELSE Some(enr[fieldName])

\* Variant for sensitivity analysis: no claim is compared with the trusted value.
ConflictsNever(claim, enr) == FALSE

\* Rule 3 for one claim: the trusted value exists and neither value includes the other.
Conflicts(claim, enr) ==
  LET fieldName == claim.field_path[Len(claim.field_path)]
      truth == TruthValue(enr, fieldName)
  IN /\ claim.source = "ENRICHMENT"
     /\ IsSome(truth)
     /\ ~Includes(LowerStr(Val(truth)), LowerStr(claim.value))
     /\ ~Includes(LowerStr(claim.value), LowerStr(Val(truth)))

\* Variant for sensitivity analysis: the score is not capped.
Uncapped(a, b) == a

Min(a, b) == IF a < b THEN a ELSE b

\* Variant for sensitivity analysis: no evidence item counts as firmographic.
FirmographicNone(ev) == {}

\* result.evidence.filter((e) => e.claim_type === 'FIRMOGRAPHIC'), as positions
FirmographicClaims(ev) == {i \in 1..Len(ev) : ev[i].claim_type = "FIRMOGRAPHIC"}

\* Variant for sensitivity analysis: every source passes.
DisallowedNone(ev) == {}

\* result.evidence.filter((e) => !Object.values(GroundingSource).includes(e.source))
DisallowedSources(ev) == {i \in 1..Len(ev) : ev[i].source \notin GroundingSource}

\* disallowed.map((e) => e.source).join(', ') over the positions in idx
RECURSIVE JoinSources(_, _, _)
JoinSources(ev, idx, i) ==
  IF i > Len(ev) THEN ""
  ELSE IF i \notin idx THEN JoinSources(ev, idx, i + 1)
  ELSE IF \E k \in idx : k > i THEN ev[i].source \o ", " \o JoinSources(ev, idx, i + 1)
  ELSE ev[i].source

FirmographicWithoutEnrichment ==
  "AI made firmographic claims without available enrichment data."
UnauthorizedSource(sources) == "AI cited unauthorized source: " \o sources
\* The message goes on with the claimed and the trusted value.
HallucinationDetected == "Hallucination detected"

HighIntentRequiresEvidence ==
  "High Intent requires at least one behavioral/computed evidence item."

\* Variant for sensitivity analysis: only the stamped fields and the scores are returned.
StampBare(result, status, errors) ==
  [fitScore |-> result.fitScore, intent |-> result.intent, decision |-> result.decision,
   reasoning |-> "", evidence |-> <<>>,
   grounding_status |-> status, grounding_errors |-> errors]

\* { ...result, grounding_status: status, grounding_errors: errors.length > 0 ? errors : undefined }
Stamp(result, status, errors) ==
  [fitScore |-> result.fitScore, intent |-> result.intent, decision |-> result.decision,
   reasoning |-> result.reasoning, evidence |-> result.evidence,
   grounding_status |-> status, grounding_errors |-> errors]

\* AiService.validateGrounding(result, enrichmentData): either it throws, or it
\* returns the result stamped with grounding_status and grounding_errors.
validateGrounding(result, enr) ==
  LET ev == result.evidence
      downgrade == /\ result.intent = "High Fit"
                   /\ ~\E i \in 1..Len(ev) : ev[i].source \in BehavioralSources
      firmographic == FirmographicClaims(ev)
      conflicting == {i \in firmographic : IsSome(enr) /\ Conflicts(ev[i], Val(enr))}
      disallowed == DisallowedSources(ev)
  IN IF firmographic # {} /\ ~IsSome(enr)
     THEN [threw |-> TRUE, message |-> FirmographicWithoutEnrichment]
     ELSE IF conflicting # {}
     THEN [threw |-> TRUE, message |-> HallucinationDetected]
     ELSE IF disallowed # {}
     THEN [threw |-> TRUE, message |-> UnauthorizedSource(JoinSources(ev, disallowed, 1))]
     ELSE [threw |-> FALSE,
           result |->
             IF downgrade
             THEN Stamp([result EXCEPT !.intent = "Medium Fit",
                                       !.fitScore = Some(Min(Val(result.fitScore), 70))],
                        "DOWNGRADED", Some(<<HighIntentRequiresEvidence>>))
             ELSE Stamp(result, "VALID", None)]

\* Variant for sensitivity analysis: the catch block keeps the lead routable.
FallbackRouted(message) ==
  [fitScore |-> Some(0), intent |-> "Manual Review", decision |-> "Route to SDR",
   reasoning |-> "Analysis Failed: " \o message, evidence |-> <<>>,
   grounding_status |-> "VALID", grounding_errors |-> None]

\* The fallback analysis of the catch block of analyzeLead.
Fallback(message) ==
  [fitScore |-> Some(0), intent |-> "Manual Review", decision |-> "Ignore",
   reasoning |-> "Analysis Failed: " \o message, evidence |-> <<>>,
   grounding_status |-> "REJECTED", grounding_errors |-> Some(<<message>>)]

\* AiService.analyzeLead(leadData); out is what the AI provider does for the call:
\* [threw |-> TRUE, message] or [threw |-> FALSE, result]; enrichmentUp: the
\* enrichment lookup succeeds (its exceptions are logged and treated as absent).
analyzeLead(email, out, enrichmentUp) ==
  LET enrichmentData == IF enrichmentUp THEN getCompanyByEmail(email) ELSE None
  IN IF out.threw THEN Fallback(out.message)
     ELSE LET v == validateGrounding(out.result, enrichmentData)
          IN IF v.threw THEN Fallback(v.message) ELSE v.result

(* ---------------------------------------------------------------------- *)
(* MCPSafetyGuard                                                          *)
(* ---------------------------------------------------------------------- *)
\* The strings of the model that match one of BLOCKED_PATTERNS:
\* /^delete_/i, /__proto__|constructor|prototype/i, /\$\{.*\}/ ...
BlockedStrings ==
  {"delete_me@acme.io", "Constructor", "__proto__", "delete_lead", "mass_update",
   "merge_accounts", "hard_delete", "bulk_export"}

MatchesBlockedPattern(s) == s \in BlockedStrings

validateToolRegistration(toolName) == ~MatchesBlockedPattern(toolName)

isActionAllowed(actionName) == validateToolRegistration(actionName)

\* The paths of the string-valued parameters that match a blocked pattern.
validateActionParams(params) ==
  LET bad == {p \in DOMAIN params.strs : MatchesBlockedPattern(params.strs[p])}
  IN [passed |-> bad = {}, reasons |-> bad]

\* Variant for sensitivity analysis: the context is not checked.
validateContextLax(context, at) == [passed |-> TRUE, reasons |-> <<>>]

\* context: [leadId, email, grounding_status, executionId, timestamp]; at: Date.now()
validateContext(context, at) ==
  LET reasons ==
        (IF context.grounding_status = "REJECTED"
         THEN <<"AI result was rejected during grounding - no actions permitted">> ELSE <<>>)
        \o (IF context.email = NoEmail THEN <<"Email is required for any CRM operation">> ELSE <<>>)
        \o (IF context.executionId = 0 THEN <<"Execution ID is required for audit trail">> ELSE <<>>)
        \o (IF context.leadId = 0 THEN <<"Lead ID is required">> ELSE <<>>)
        \o (IF context.timestamp > at + 60 THEN <<"Context timestamp is in the future">> ELSE <<>>)
        \o (IF context.timestamp < at - 3600 THEN <<"Context timestamp is too old (over 1 hour)">> ELSE <<>>)
  IN [passed |-> reasons = <<>>, reasons |-> reasons]

(* ---------------------------------------------------------------------- *)
(* MCPRateLimiter                                                          *)
(* ---------------------------------------------------------------------- *)
LeadKey(leadId) == [tier |-> "lead", lead |-> leadId, account |-> ""]
GlobalKey == [tier |-> "global", lead |-> 0, account |-> ""]
AccountKey(accountId) == [tier |-> "account", lead |-> 0, account |-> accountId]
\* `mcp:crm:${providerName}:api_calls`, the key checkCrmLimits counts on
CrmKey(providerName) == [tier |-> "crm", lead |-> 0, account |-> providerName]

WindowKey(key, at) ==
  [tier |-> key.tier, lead |-> key.lead, account |-> key.account, win |-> at \div WindowSeconds]

\* GET of a limiter key: a key past its expiry is gone.
RedisCount(store, wk, at) ==
  IF wk \in DOMAIN store /\ store[wk].expireAt > at THEN store[wk].count ELSE 0

\* Variant for sensitivity analysis: the transaction renews the expiry but does not count.
RedisExpireOnly(store, wk, at) ==
  [k \in DOMAIN store \cup {wk} |->
     IF k = wk THEN [count |-> 1, expireAt |-> at + WindowSeconds] ELSE store[k]]

\* MULTI; INCR windowKey; EXPIRE windowKey windowSeconds; EXEC
RedisIncrExpire(store, wk, at) ==
  [k \in DOMAIN store \cup {wk} |->
     IF k = wk THEN [count |-> RedisCount(store, wk, at) + 1, expireAt |-> at + WindowSeconds]
     ELSE store[k]]

\* Variant for sensitivity analysis: the comparison is off by one.
AllowedOffByOne(current, limit) == current <= limit + 1

AllowedBy(current, limit) == current <= limit

\* checkLimit without a Redis client: allowed at once, nothing counted.
checkLimitNoClient(store, limit) ==
  [allowed |-> TRUE, limit |-> limit, current |-> 0, remaining |-> limit, store |-> store]

\* checkLimit from multi.exec() on: the transaction on window key wk runs at
\* time at; the answer and the store after it.
checkLimitExec(store, wk, limit, at) ==
  LET after == RedisIncrExpire(store, wk, at)
      current == after[wk].count
  IN [allowed |-> AllowedBy(current, limit), limit |-> limit, current |-> current,
      remaining |-> IF limit - current > 0 THEN limit - current ELSE 0,
      store |-> after]

\* checkLimit when no time passes between reading the clock and the transaction.
checkLimit(store, client, key, limit, at) ==
  IF ~client THEN checkLimitNoClient(store, limit)
  ELSE checkLimitExec(store, WindowKey(key, at), limit, at)

\* `${text} (${limit}/${window})`: the text a violation starts with and its detail.
RateViolation(text, limit) == [text |-> text, limit |-> limit, window |-> WindowSeconds]

\* Variant for sensitivity analysis: an outage of the back end denies the call.
FailClosed(store) ==
  [allowed |-> FALSE, violations |-> <<RateViolation("Rate limiter unavailable", 0)>>,
   store |-> store, reached |-> FALSE]

\* return { allowed: true, violations: [], details: {} }: without a client and
\* in the catch block ("Fail open - allow processing if Redis is down").
FailOpen(store) ==
  [allowed |-> TRUE, violations |-> <<>>, store |-> store, reached |-> FALSE]

\* checkLimits(leadId, accountId). client: a Redis client is injected;
\* up: the Redis round trips succeed (otherwise the call throws and is caught).
checkLimits(store, client, up, leadId, accountId, at) ==
  IF ~client \/ ~up
  THEN FailOpen(store)
  ELSE
    LET perLead == checkLimit(store, client, LeadKey(leadId), PerLeadLimit, at)
        global == checkLimit(perLead.store, client, GlobalKey, GlobalLimit, at)
        hasAccount == accountId # ""
        perAccount == IF hasAccount
                      THEN checkLimit(global.store, client, AccountKey(accountId), PerAccountLimit, at)
                      ELSE [allowed |-> TRUE, limit |-> 0, store |-> global.store]
        violations ==
          (IF ~perLead.allowed
           THEN <<RateViolation("Per-lead rate limit exceeded", perLead.limit)>> ELSE <<>>)
          \o (IF ~global.allowed
              THEN <<RateViolation("Global rate limit exceeded", global.limit)>> ELSE <<>>)
          \o (IF hasAccount /\ ~perAccount.allowed
              THEN <<RateViolation("Per-account rate limit exceeded", perAccount.limit)>>
              ELSE <<>>)
    IN [allowed |-> violations = <<>>, violations |-> violations,
        store |-> perAccount.store, reached |-> TRUE]

(* ---------------------------------------------------------------------- *)
(* PIIRedactor                                                             *)
(* ---------------------------------------------------------------------- *)
\* The addresses of the model, as strings: the strings that match
\* /^[^\s@]+@[^\s@]+\.[^\s@]+$/ (containsEmail).
EmailStrings ==
  {"john@stripe.com", "John@stripe.com", "ann@stripe.com", "ann@Stripe.com", "bob@unknown.io"}

containsEmail(value) == value \in EmailStrings

\* The strings of the model that hold ten or more digits (containsPhone).
PhoneStrings == {"4155550100"}

containsPhone(value) == value \in PhoneStrings

\* The parameter names of the model whose normalised form (lower case, without
\* '_', '-' and blanks) includes one of DEFAULT_CONFIG.sensitiveFields.
SensitiveKeys == {"email", "firstName", "lastName"}

isSensitiveField(key) == key \in SensitiveKeys

\* value.slice(-4) of the strings longer than four characters, and the stars
\* of the shorter ones (strategy 'truncate', truncateShowLast 4).
applyRedaction(value) ==
  CASE value \in {"john@stripe.com", "John@stripe.com", "ann@stripe.com"} -> "***.com"
    [] value = "Constructor" -> "***ctor"
    [] value = "4155550100" -> "***0100"
    [] value \in {"John"} -> "****"
    [] value \in {"Doe", "Ann", "Bob"} -> "***"
    [] value = "bob@localhost" -> "***host"
    [] value = "" -> ""

\* `${local.charAt(0)}***@${domain}`
redactEmail(email) ==
  CASE email = "john@stripe.com" -> "j***@stripe.com"
    [] email = "John@stripe.com" -> "J***@stripe.com"
    [] email = "ann@stripe.com" -> "a***@stripe.com"
    [] email = "ann@Stripe.com" -> "a***@Stripe.com"
    [] email = "bob@unknown.io" -> "b***@unknown.io"
    [] OTHER -> email

\* `***${digits.slice(-4)}`
redactPhone(phone) == IF phone = "4155550100" THEN "***0100" ELSE phone

redactStringContent(value) ==
  IF containsEmail(value) THEN redactEmail(value)
  ELSE IF containsPhone(value) THEN redactPhone(value)
  ELSE value

\* PIIRedactor.redact(params): sensitive fields by name, other strings by content;
\* numbers pass unchanged.
redact(params) ==
  [strs |-> [k \in DOMAIN params.strs |->
               IF isSensitiveField(k) THEN applyRedaction(params.strs[k])
               ELSE redactStringContent(params.strs[k])],
   nums |-> params.nums]

(* ---------------------------------------------------------------------- *)
(* MCPRegistryService and the executors                                    *)
(* ---------------------------------------------------------------------- *)
\* The tools registerDefaultTools registers (the constructor calls it).
RegisteredTools ==
  {"create_lead", "upsert_lead", "convert_lead", "update_lead_status", "set_lead_score",
   "match_account", "create_contact", "create_opportunity", "update_opportunity_stage",
   "create_task", "log_activity", "sync_firmographics"}

\* Variant for sensitivity analysis: the parameters are not validated.
SchemaUnchecked(toolName, params) == TRUE

\* paramsSchema.parse(params) of the tools the action plan uses.
\* z.string().email() accepts the well-formed addresses of the model and
\* rejects the one without a dotted domain ("bob@localhost").
SchemaOk(toolName, params) ==
  CASE toolName = "upsert_lead" ->
         "email" \in DOMAIN params.strs /\ params.strs["email"] \in EmailStrings
    [] toolName = "set_lead_score" ->
         /\ "leadId" \in DOMAIN params.strs
         /\ "score" \in DOMAIN params.nums
         /\ params.nums["score"] >= 0 /\ params.nums["score"] <= 100
    [] toolName = "log_activity" -> "type" \in DOMAIN params.strs
    [] OTHER -> TRUE

\* The tools whose registry wrapper hands ctx.executionId to the executor as idempotencyKey.
PassesIdempotencyKey(toolName) == toolName \in {"create_lead", "upsert_lead"}

\* MockMCPExecutor.executeAction: draws an execution id of its own, writes one
\* crm_sync_logs row with the parameters as given, and succeeds.
MockExecuteAction(toolName, params, idempotencyKey, uuid) ==
  [success |-> TRUE,
   uuid |-> uuid + 1,
   rows |-> <<[action |-> toolName, params |-> params, mcpExecutionId |-> uuid + 1,
               idempotencyKey |-> idempotencyKey, mock |-> TRUE]>>]

\* SalesforceMCPExecutor: every method answers notImplemented.
SalesforceNotImplemented(toolName, uuid) ==
  [success |-> FALSE, uuid |-> uuid, rows |-> <<>>]

\* The name a breaker of an executor operation is created under
\* (circuitBreakerFactory.createBreaker('salesforce_createLead', ...)).
BreakerName(provider, toolName) == provider \o "_" \o toolName

\* MCPRegistryService.execute: unknown tool and schema failure return before the executor.
RegistryExecute(toolName, params, executionId, provider, uuid) ==
  IF toolName \notin tools \/ ~SchemaOk(toolName, params)
  THEN [success |-> FALSE, uuid |-> uuid, rows |-> <<>>, invoked |-> FALSE]
  ELSE
    LET key == IF PassesIdempotencyKey(toolName) THEN Some(executionId) ELSE None
        r == IF provider = "salesforce"
             THEN SalesforceNotImplemented(toolName, uuid)
             ELSE MockExecuteAction(toolName, params, key, uuid)
    IN [success |-> r.success, uuid |-> r.uuid, rows |-> r.rows, invoked |-> TRUE]

(* ---------------------------------------------------------------------- *)
(* MCPService                                                              *)
(* ---------------------------------------------------------------------- *)
\* name.split(' ')[0] and name.split(' ').slice(1).join(' '); a name is its words.
FirstName(name) == IF name = <<>> THEN None ELSE Some(Head(name))
LastName(name) ==
  IF name = <<>> THEN None
  ELSE IF Len(name) = 1 THEN Some("")
  ELSE IF Len(name) = 2 THEN Some(name[2])
  ELSE Some(name[2] \o " " \o name[3])

OptField(k, o) == IF IsSome(o) THEN (k :> Val(o)) ELSE <<>>
NoFields == <<>>

IdStr(id) == ToString(id)

\* Variant for sensitivity analysis: the upsert is never planned.
PlansUpsertNever(ai) == FALSE

\* if (aiResult.grounding_status !== GroundingStatus.REJECTED): upsert_lead comes first
PlansUpsert(ai) == ai.grounding_status # "REJECTED"

\* lead: [id, email, name]; ai: [grounding_status, fitScore, intent, grounding_errors];
\* enr: company or None
buildActionPlan(lead, ai, enr) ==
  (IF PlansUpsert(ai)
   THEN <<[toolName |-> "upsert_lead", critical |-> TRUE,
           params |-> [strs |-> ("email" :> EmailStr(lead.email))
                                  @@ OptField("firstName", FirstName(lead.name))
                                  @@ OptField("lastName", LastName(lead.name))
                                  @@ OptField("company", IF IsSome(enr) THEN Some(Val(enr).name) ELSE None),
                       nums |-> NoFields]]>>
   ELSE <<>>)
  \o (IF IsSome(ai.fitScore)
      THEN <<[toolName |-> "set_lead_score", critical |-> FALSE,
              params |-> [strs |-> ("leadId" :> IdStr(lead.id)) @@ ("scoreType" :> "fit"),
                          nums |-> ("score" :> Val(ai.fitScore))]]>>
      ELSE <<>>)
  \o (IF IsSome(enr)
      THEN <<[toolName |-> "sync_firmographics", critical |-> FALSE,
              params |-> [strs |-> ("leadId" :> IdStr(lead.id))
                                     @@ ("firmographics.industry" :> Val(enr).industry)
                                     @@ ("firmographics.employees" :> Val(enr).employees)
                                     @@ ("firmographics.geo" :> Val(enr).geo)
                                     @@ [i \in {"firmographics.techStack." \o ToString(k - 1) :
                                                  k \in 1..Len(Val(enr).techStack)} |->
                                           Val(enr).techStack[
                                             CHOOSE k \in 1..Len(Val(enr).techStack) :
                                               i = "firmographics.techStack." \o ToString(k - 1)]],
                          nums |-> NoFields]]>>
      ELSE <<>>)
  \o <<[toolName |-> "log_activity", critical |-> FALSE,
        params |-> [strs |-> ("relatedToId" :> IdStr(lead.id)) @@ ("type" :> "ai_analysis")
                               @@ ("description" :> "AI Analysis: " \o ai.intent),
                    nums |-> NoFields]]>>

\* Variant for sensitivity analysis: a failed critical action does not stop the loop.
HaltsNever(action, success) == FALSE

\* if (!result.success && action.critical): the loop stops and the call returns BLOCKED.
HaltsOn(action, success) == ~success /\ action.critical

\* The loop over the action plan (step 6 of processAfterGrounding), from action i on.
\* acc: [results, errors, uuid, rows, executed, logged, halted]; logged is what
\* logExecution hands to logger.debug.
RECURSIVE ExecuteActions(_, _, _, _, _)
ExecuteActions(plan, i, executionId, provider, acc) ==
  IF i > Len(plan) \/ acc.halted THEN acc
  ELSE
    LET action == plan[i]
        paramCheck == validateActionParams(action.params)
    IN IF ~isActionAllowed(action.toolName)
       THEN ExecuteActions(plan, i + 1, executionId, provider,
              [acc EXCEPT !.errors = Append(@, "blocked tool " \o action.toolName)])
       ELSE IF ~paramCheck.passed
       THEN ExecuteActions(plan, i + 1, executionId, provider,
              [acc EXCEPT !.errors = Append(@, "blocked params of " \o action.toolName)])
       ELSE
         LET r == RegistryExecute(action.toolName, action.params, executionId, provider, acc.uuid)
             failed == ~r.success
             next == [results |-> Append(acc.results, [tool |-> action.toolName, success |-> r.success]),
                      errors |-> IF failed THEN Append(acc.errors, action.toolName \o " failed")
                                 ELSE acc.errors,
                      uuid |-> r.uuid,
                      rows |-> acc.rows \o r.rows,
                      executed |-> IF r.invoked THEN Append(acc.executed, action.toolName)
                                   ELSE acc.executed,
                      logged |-> Append(acc.logged, [toolName |-> action.toolName,
                                                     success |-> r.success,
                                                     params |-> redact(action.params)]),
                      halted |-> HaltsOn(action, r.success)]
         IN ExecuteActions(plan, i + 1, executionId, provider, next)

\* Variant for sensitivity analysis: the grounding gate is absent.
GroundingGateOff(ai) == FALSE

\* Step 1 of processAfterGrounding: if (aiResult.grounding_status === 'REJECTED')
GroundingRejected(ai) == ai.grounding_status = "REJECTED"

\* retryAfter of a RATE_LIMITED result, in milliseconds
RetryAfterMs == 60000

AccountIdOf(email) == IF email = NoEmail THEN "" ELSE email.domain

\* processAfterGrounding(lead, aiResult, enrichmentData): the result and the
\* effects on the shared store, the uuid source and crm_sync_logs.
processAfterGrounding(lead, ai, enr, store, client, up, provider, uuid, at) ==
  LET executionId == uuid + 1
      idle == [store |-> store, uuid |-> executionId, rows |-> <<>>, executed |-> <<>>,
               results |-> <<>>, errors |-> <<>>, logged |-> <<>>, planned |-> None,
               limiterReached |-> FALSE]
  IN IF GroundingRejected(ai)
     THEN idle @@ [status |-> "REJECTED_BY_GROUNDING", executionId |-> executionId,
                   violations |-> IF IsSome(ai.grounding_errors) THEN Val(ai.grounding_errors)
                                 ELSE <<"Grounding validation failed">>,
                   halt |-> TRUE,
                   retryAfter |-> None]
     ELSE
       LET rl == checkLimits(store, client, up, lead.id, AccountIdOf(lead.email), at)
           limited == [idle EXCEPT !.store = rl.store, !.limiterReached = rl.reached]
       IN IF ~rl.allowed
          THEN limited @@ [status |-> "RATE_LIMITED", executionId |-> executionId,
                           violations |-> rl.violations, halt |-> FALSE,
                           retryAfter |-> Some(RetryAfterMs)]
          ELSE
            LET context == [leadId |-> lead.id, email |-> lead.email,
                            grounding_status |-> ai.grounding_status,
                            executionId |-> executionId, timestamp |-> at]
                safety == validateContext(context, at)
            IN IF ~safety.passed
               THEN limited @@ [status |-> "BLOCKED", executionId |-> executionId,
                                violations |-> safety.reasons, halt |-> TRUE,
                                retryAfter |-> None]
               ELSE
                 LET plan == buildActionPlan(lead, ai, enr)
                     acc == ExecuteActions(plan, 1, executionId, provider,
                              [results |-> <<>>, errors |-> <<>>, uuid |-> executionId,
                               rows |-> <<>>, executed |-> <<>>, logged |-> <<>>,
                               halted |-> FALSE])
                 IN [store |-> rl.store, uuid |-> acc.uuid, rows |-> acc.rows,
                     executed |-> acc.executed, results |-> acc.results,
                     errors |-> acc.errors, logged |-> acc.logged,
                     planned |-> Some([i \in 1..Len(plan) |-> plan[i].toolName]),
                     limiterReached |-> rl.reached,
                     status |-> IF acc.halted THEN "BLOCKED" ELSE "COMPLETED",
                     executionId |-> executionId, violations |-> <<>>,
                     halt |-> acc.halted, retryAfter |-> None]

(* ---------------------------------------------------------------------- *)
(* Inputs of the direct MCP invocations                                    *)
(* ---------------------------------------------------------------------- *)
LeadJohn == [id |-> 1, email |-> Email("john", "stripe.com"), name |-> <<"John", "Doe">>]
LeadAnn == [id |-> 2, email |-> Email("ann", "stripe.com"), name |-> <<"Ann", "Constructor">>]
LeadNoEmail == [id |-> 3, email |-> NoEmail, name |-> <<>>]
LeadBadEmail == [id |-> 2, email |-> Email("bob", "localhost"), name |-> <<"Bob">>]
LeadDigits == [id |-> 1, email |-> Email("john", "stripe.com"), name |-> <<"4155550100">>]

AiValid ==
  [grounding_status |-> "VALID", fitScore |-> Some(90), intent |-> "High Fit",
   grounding_errors |-> None]
AiDowngraded ==
  [grounding_status |-> "DOWNGRADED", fitScore |-> Some(70), intent |-> "Medium Fit",
   grounding_errors |-> None]
AiRejected ==
  [grounding_status |-> "REJECTED", fitScore |-> Some(0), intent |-> "Manual Review",
   grounding_errors |-> Some(<<"Hallucination detected">>)]
AiNoScore ==
  [grounding_status |-> "VALID", fitScore |-> None, intent |-> "Low Fit",
   grounding_errors |-> None]
\* fitScore is a number; nothing before the tool schema bounds it.
AiOverScore ==
  [grounding_status |-> "VALID", fitScore |-> Some(150), intent |-> "High Fit",
   grounding_errors |-> None]

McpCases ==
  {[lead |-> LeadJohn, ai |-> AiValid, enr |-> Some(Stripe)],
   [lead |-> LeadJohn, ai |-> AiRejected, enr |-> None],
   [lead |-> LeadJohn, ai |-> AiDowngraded, enr |-> None],
   [lead |-> LeadAnn, ai |-> AiValid, enr |-> None],
   [lead |-> LeadAnn, ai |-> AiRejected, enr |-> Some(Stripe)],
   [lead |-> LeadNoEmail, ai |-> AiNoScore, enr |-> None],
   [lead |-> LeadDigits, ai |-> AiOverScore, enr |-> Some(Stripe)],
   [lead |-> LeadBadEmail, ai |-> AiValid, enr |-> None],
   [lead |-> LeadJohn, ai |-> AiNoScore, enr |-> Some(Stripe)]}

\* CreateLeadDto values
NoDto == [email |-> NoEmail, campaign_id |-> "", name |-> <<>>]
Dtos ==
  {[email |-> Email("john", "stripe.com"), campaign_id |-> "cmp_1", name |-> <<"John", "Doe">>],
   [email |-> Email("john", "stripe.com"), campaign_id |-> "cmp_2", name |-> <<"John", "Doe">>],
   [email |-> Email("John", "stripe.com"), campaign_id |-> "cmp_1", name |-> <<"John", "Doe">>]}

\* What the AI provider does for one analyzeLead call.
Evidence(source, path, value, claimType) ==
  [source |-> source, field_path |-> path, value |-> value, claim_type |-> claimType]
ProviderResult(intent, score, decision, evidence) ==
  [threw |-> FALSE,
   result |-> [fitScore |-> Some(score), intent |-> intent, decision |-> decision,
               reasoning |-> "reasoning", evidence |-> evidence]]
ProviderOutputs ==
  {ProviderResult("High Fit", 90, "Route to SDR",
                  <<Evidence("PRODUCT", <<"product", "logins">>, "12", "BEHAVIOR")>>),
   ProviderResult("High Fit", 90, "Route to SDR",
                  <<Evidence("ENRICHMENT", <<"enrichment", "industry">>, "Fintech", "FIRMOGRAPHIC")>>),
   ProviderResult("Medium Fit", 60, "Nurture",
                  <<Evidence("ENRICHMENT", <<"enrichment", "industry">>, "Healthcare", "FIRMOGRAPHIC")>>),
   ProviderResult("Low Fit", 40, "Nurture",
                  <<Evidence("WEB_SEARCH", <<"web", "title">>, "CXO", "BEHAVIOR")>>),
   [threw |-> TRUE, message |-> "LLM timeout"]}

LimiterKeys == {LeadKey(1), GlobalKey}
LimitOf(key) ==
  CASE key.tier = "lead" -> PerLeadLimit
    [] key.tier = "account" -> PerAccountLimit
    [] OTHER -> GlobalLimit

(* ---------------------------------------------------------------------- *)
(* The MCP layer driven directly                                           *)
(* ---------------------------------------------------------------------- *)
NoInvocation == [status |-> "NONE"]

\* Everything but the queue's content and the number of instances.
SharedInit ==
  /\ now = 0
  /\ redis = <<>>
  /\ redisClient \in BOOLEAN
  /\ crmProvider \in {"mock", "salesforce"}
  /\ nextUuid = 0
  /\ syncLog = <<>>
  /\ mcpCalls = 0
  /\ mcpLast = NoInvocation
  /\ limLast = NoInvocation
  /\ limCalls = 0
  /\ limAllowed = <<>>
  /\ limPending = <<>>
  /\ limLate = {}
  /\ leads = <<>>
  /\ req = [r \in 1..MaxRequests |-> [pc |-> "idle", dto |-> NoDto, result |-> None, error |-> ""]]
  /\ failedEvents = {}
  /\ peerEvents = {}
  /\ dlq = <<>>
  /\ breakers = {}
  /\ tools = RegisteredTools
  /\ keyLast = NoInvocation
  /\ keyCalls = 0
  /\ regLast = NoInvocation
  /\ aiLast = NoInvocation
  /\ aiCalls = 0

\* One application instance, nothing queued.
BaseInit ==
  /\ SharedInit
  /\ jobs = <<>>
  /\ instances = 1

\* The counters of the three limiter tiers in the window of time at, for the
\* keys checkLimits uses for this lead (no account tier without an account id).
TierCounts(store, lead, at) ==
  [lead |-> RedisCount(store, WindowKey(LeadKey(lead.id), at), at),
   global |-> RedisCount(store, WindowKey(GlobalKey, at), at),
   account |-> IF AccountIdOf(lead.email) = "" THEN 0
               ELSE RedisCount(store, WindowKey(AccountKey(AccountIdOf(lead.email)), at), at)]

\* What is recorded of an invocation: its arguments, the state it found and its result r.
Invocation(lead, ai, enr, up, r) ==
  [status |-> r.status, executionId |-> r.executionId,
   halt |-> r.halt, violations |-> r.violations,
   retryAfter |-> r.retryAfter, up |-> up,
   results |-> r.results, errors |-> r.errors,
   executed |-> r.executed, rows |-> r.rows,
   logged |-> r.logged, planned |-> r.planned,
   limiterReached |-> r.limiterReached,
   lead |-> [id |-> lead.id, email |-> lead.email, name |-> lead.name],
   ai |-> ai, enr |-> enr,
   perLeadBefore |-> RedisCount(redis, WindowKey(LeadKey(lead.id), now), now),
   tiersBefore |-> TierCounts(redis, lead, now),
   tiersAfter |-> TierCounts(r.store, lead, now),
   crmTokens |-> RedisCount(r.store, WindowKey(CrmKey(crmProvider), now), now)
                   - RedisCount(redis, WindowKey(CrmKey(crmProvider), now), now),
   logBefore |-> Len(syncLog)]

\* One call of MCPService.processAfterGrounding(lead, aiResult, enrichmentData).
McpInvoke ==
  \E c \in McpCases, up \in BOOLEAN :
    /\ mcpCalls < MaxInvocations
    /\ (up \/ redisClient)
    /\ \E r \in {processAfterGrounding(c.lead, c.ai, c.enr, redis, redisClient, up,
                                       crmProvider, nextUuid, now)} :
          /\ redis' = r.store
          /\ nextUuid' = r.uuid
          /\ syncLog' = syncLog \o r.rows
          /\ mcpLast' = Invocation(c.lead, c.ai, c.enr, up, r)
    /\ mcpCalls' = mcpCalls + 1
    /\ UNCHANGED <<utilVars, now, redisClient, crmProvider, limVars, ingestVars, queueVars>>

\* Time passes; limiter keys past their expiry are removed by the store.
Tick ==
  /\ now + ClockStep <= MaxNow
  /\ now' = now + ClockStep
  /\ redis' = [k \in {k \in DOMAIN redis : redis[k].expireAt > now + ClockStep} |-> redis[k]]
  /\ UNCHANGED <<utilVars, redisClient, crmProvider, nextUuid, syncLog, mcpCalls, mcpLast, limVars,
                 ingestVars, queueVars>>

McpNext == McpInvoke \/ Tick

SpecMcp == BaseInit /\ [][McpNext]_vars

(* ---------------------------------------------------------------------- *)
(* The registry driven directly                                            *)
(* ---------------------------------------------------------------------- *)
Params(strs, nums) == [strs |-> strs, nums |-> nums]

\* Calls of execute(toolName, params, context); conforms tells whether params
\* satisfies the zod schema the tool is registered with.
RegistryInputs ==
  {[toolName |-> "upsert_lead", conforms |-> TRUE,
    params |-> Params("email" :> "john@stripe.com", NoFields)],
   [toolName |-> "upsert_lead", conforms |-> FALSE,
    params |-> Params("email" :> "bob@localhost", NoFields)],
   [toolName |-> "upsert_lead", conforms |-> FALSE,
    params |-> Params("firstName" :> "John", NoFields)],
   [toolName |-> "set_lead_score", conforms |-> TRUE,
    params |-> Params("leadId" :> "1", "score" :> 90)],
   [toolName |-> "set_lead_score", conforms |-> FALSE,
    params |-> Params("leadId" :> "1", "score" :> 150)],
   [toolName |-> "set_lead_score", conforms |-> FALSE,
    params |-> Params(NoFields, "score" :> 90)],
   [toolName |-> "log_activity", conforms |-> TRUE,
    params |-> Params("type" :> "ai_analysis", NoFields)],
   [toolName |-> "log_activity", conforms |-> FALSE,
    params |-> Params("description" :> "AI Analysis: High Fit", NoFields)],
   [toolName |-> "assign_owner", conforms |-> TRUE,
    params |-> Params("recordId" :> "1", NoFields)],
   [toolName |-> "delete_lead", conforms |-> TRUE,
    params |-> Params("leadId" :> "1", NoFields)]}

\* One call of MCPRegistryService.execute; the context carries an execution id
\* drawn by the caller.
RegistryCall ==
  \E c \in RegistryInputs :
    /\ (IF regLast.status = "NONE" THEN 0 ELSE regLast.call) < MaxRegistryCalls
    /\ \E r \in {RegistryExecute(c.toolName, c.params, nextUuid + 1, crmProvider, nextUuid + 1)} :
          /\ nextUuid' = r.uuid
          /\ syncLog' = syncLog \o r.rows
          /\ regLast' = [status |-> "RETURNED",
                         call |-> IF regLast.status = "NONE" THEN 1 ELSE regLast.call + 1,
                         toolName |-> c.toolName, params |-> c.params, conforms |-> c.conforms,
                         success |-> r.success, invoked |-> r.invoked, rows |-> r.rows,
                         uuidBefore |-> nextUuid + 1, logBefore |-> Len(syncLog)]
    /\ UNCHANGED <<now, redis, redisClient, crmProvider, mcpCalls, mcpLast, breakers, aiLast, tools, keyLast, keyCalls,
                   aiCalls, limVars, ingestVars, queueVars>>

RegistryNext == RegistryCall

SpecRegistry == BaseInit /\ [][RegistryNext]_vars

(* ---------------------------------------------------------------------- *)
(* IdempotencyService: key generation                                      *)
(* ---------------------------------------------------------------------- *)
\* Here a string is the sequence of its characters.
KeyChars == {"a", "A", " "}
RECURSIVE StringsUpTo(_)
StringsUpTo(n) ==
  IF n = 0 THEN {<<>>}
  ELSE StringsUpTo(n - 1)
         \cup {Append(str, c) : str \in {x \in StringsUpTo(n - 1) : Len(x) = n - 1}, c \in KeyChars}

\* Variant for sensitivity analysis: capitals are kept.
KeepChar(c) == c

LowerChar(c) == IF c = "A" THEN "a" ELSE c

\* String.prototype.toLowerCase
toLowerCase(str) == [i \in 1..Len(str) |-> LowerChar(str[i])]

\* String.prototype.trim
RECURSIVE trimStart(_)
trimStart(str) == IF str # <<>> /\ Head(str) = " " THEN trimStart(Tail(str)) ELSE str
RECURSIVE trimEnd(_)
trimEnd(str) ==
  IF str # <<>> /\ str[Len(str)] = " " THEN trimEnd(SubSeq(str, 1, Len(str) - 1)) ELSE str
trim(str) == trimEnd(trimStart(str))

\* campaignId?.toLowerCase().trim() || 'none'; campaignId is None when undefined
CampaignPart(campaignId) ==
  IF ~IsSome(campaignId) \/ trim(toLowerCase(Val(campaignId))) = <<>>
  THEN <<"n", "o", "n", "e">>
  ELSE trim(toLowerCase(Val(campaignId)))

\* action.toLowerCase() on the action names of the model
LowerAction(action) == IF action = "Upsert_Lead" THEN "upsert_lead" ELSE action

\* createHash('sha256').update(data).digest('hex'): the digest stands for the
\* parts that were joined into data.
Sha256(parts) == [sha256 |-> parts]

\* Math.floor(Date.now() / windowMs) * windowMs; at is the clock in seconds
TimeBucket(windowMinutes, at) ==
  ((at * 1000) \div (windowMinutes * 60 * 1000)) * (windowMinutes * 60 * 1000)

\* IdempotencyService.generateKey(email, campaignId, action, windowMinutes)
generateKey(email, campaignId, action, windowMinutes, at) ==
  Sha256(<<trim(toLowerCase(email)), CampaignPart(campaignId), LowerAction(action),
           TimeBucket(windowMinutes, at)>>)

\* IdempotencyService.generateStableKey(email, campaignId, action)
generateStableKey(email, campaignId, action) ==
  Sha256(<<trim(toLowerCase(email)), CampaignPart(campaignId), LowerAction(action)>>)

\* One call of generateKey and one of generateStableKey on the same input.
KeyCall ==
  \E email \in StringsUpTo(MaxKeyLen),
     campaignId \in {None} \cup {Some(c) : c \in StringsUpTo(MaxKeyLen)},
     action \in {"upsert_lead", "Upsert_Lead"},
     windowMinutes \in {1, 60} :
    /\ keyCalls < MaxKeyCalls
    /\ keyCalls' = keyCalls + 1
    /\ keyLast' = [status |-> "RETURNED", email |-> email, campaignId |-> campaignId,
                   action |-> action, windowMinutes |-> windowMinutes, at |-> now,
                   key |-> generateKey(email, campaignId, action, windowMinutes, now),
                   stableKey |-> generateStableKey(email, campaignId, action)]
    /\ UNCHANGED <<mcpVars, limVars, ingestVars, queueVars, breakers, regLast, aiLast, aiCalls,
                   tools>>

KeyNext == KeyCall \/ Tick

\* Key generation touches neither the limiter store nor the CRM executor.
KeyInit == BaseInit /\ redisClient /\ crmProvider = "mock"

SpecKeys == KeyInit /\ [][KeyNext]_vars

(* ---------------------------------------------------------------------- *)
(* Tool registration                                                       *)
(* ---------------------------------------------------------------------- *)
\* Names handed to register(tool).
ToolNames ==
  {"delete_lead", "mass_update", "merge_accounts", "hard_delete", "bulk_export",
   "assign_owner", "update_lead_fields", "upsert_lead"}

\* MCPRegistryService.register(tool): this.tools.set(tool.name, tool); a name
\* already present is overwritten with a warning.
Register ==
  \E name \in ToolNames :
    /\ tools' = tools \cup {name}
    /\ UNCHANGED <<mcpVars, limVars, ingestVars, queueVars, breakers, regLast, aiLast, aiCalls, keyLast, keyCalls>>

RegisterNext == Register

SpecRegister == BaseInit /\ [][RegisterNext]_vars

(* ---------------------------------------------------------------------- *)
(* The grounding validator driven directly                                 *)
(* ---------------------------------------------------------------------- *)
GroundingEmails ==
  {Email("john", "stripe.com"), Email("ann", "Stripe.com"), Email("bob", "unknown.io"), NoEmail}

EvidencePool ==
  {Evidence("PRODUCT", <<"product", "logins">>, "12", "BEHAVIOR"),
   Evidence("ENRICHMENT", <<"enrichment", "industry">>, "Fintech", "FIRMOGRAPHIC"),
   Evidence("ENRICHMENT", <<"enrichment", "industry">>, "Healthcare", "FIRMOGRAPHIC"),
   Evidence("WEB_SEARCH", <<"web", "title">>, "CXO", "BEHAVIOR"),
   Evidence("LINKEDIN", <<"linkedin", "industry">>, "Fintech", "FIRMOGRAPHIC"),
   Evidence("ENRICHMENT", <<"enrichment", "industry">>, "Fin", "FIRMOGRAPHIC"),
   Evidence("ENRICHMENT", <<"enrichment", "revenue">>, "Healthcare", "FIRMOGRAPHIC")}

\* Evidence lists of up to two items.
EvidenceLists ==
  {<<>>} \cup {<<a>> : a \in EvidencePool} \cup {<<a, b>> : a \in EvidencePool, b \in EvidencePool}

\* What the AI provider does for one analyzeLead call.
GroundingOutputs ==
  {ProviderResult(c.intent, c.score, "Route to SDR", ev) :
     c \in {[intent |-> "High Fit", score |-> 90], [intent |-> "High Fit", score |-> 50],
            [intent |-> "Low Fit", score |-> 90]},
     ev \in EvidenceLists}
    \cup {[threw |-> TRUE, message |-> "LLM timeout"],
          [threw |-> TRUE, message |-> "No JSON object found in response"]}

\* One call of AiService.analyzeLead(leadData).
AnalyzeCall ==
  \E email \in GroundingEmails, out \in GroundingOutputs, enrichmentUp \in BOOLEAN :
    /\ aiCalls < MaxAnalyses
    /\ aiCalls' = aiCalls + 1
    /\ aiLast' = [status |-> "RETURNED", email |-> email,
                  analysis |-> IF out.threw THEN None ELSE Some(out.result),
                  thrown |-> IF out.threw THEN Some(out.message) ELSE None,
                  enrichment |-> IF enrichmentUp THEN getCompanyByEmail(email) ELSE None,
                  result |-> analyzeLead(email, out, enrichmentUp)]
    /\ UNCHANGED <<mcpVars, limVars, ingestVars, queueVars, breakers, regLast, tools, keyLast, keyCalls>>

GroundingNext == AnalyzeCall

\* The analysis touches neither the limiter store nor the CRM executor.
GroundingInit == BaseInit /\ redisClient /\ crmProvider = "mock"

SpecGrounding == GroundingInit /\ [][GroundingNext]_vars

(* ---------------------------------------------------------------------- *)
(* The limiter driven directly                                             *)
(* ---------------------------------------------------------------------- *)
\* The count of allowed answers after one more answer on window key wk.
CountAnswer(wk, allowed) ==
  IF allowed
  THEN [k \in DOMAIN limAllowed \cup {wk} |->
          IF k = wk THEN (IF wk \in DOMAIN limAllowed THEN limAllowed[wk] ELSE 0) + 1
          ELSE limAllowed[k]]
  ELSE limAllowed

\* The calls in flight after d more (or fewer) on window key wk.
InFlight(wk, d) ==
  LET n == (IF wk \in DOMAIN limPending THEN limPending[wk] ELSE 0) + d
  IN [k \in {k \in DOMAIN limPending \cup {wk} : k # wk \/ n > 0} |->
        IF k = wk THEN n ELSE limPending[k]]

KeyOf(wk) == [tier |-> wk.tier, lead |-> wk.lead, account |-> wk.account]

Answer(key, wk, r) ==
  [status |-> "RETURNED", key |-> key, wk |-> wk, allowed |-> r.allowed,
   current |-> r.current, limit |-> r.limit, remaining |-> r.remaining]

\* checkLimit(key, {limit, windowSeconds}) up to `await multi.exec()`: without
\* a client it returns at once; with one it reads the clock, computes the
\* window key and sends the transaction.
CheckLimitBegin ==
  \E key \in LimiterKeys :
    /\ limCalls < MaxLimiterCalls
    /\ limCalls' = limCalls + 1
    /\ IF ~redisClient
       THEN \E r \in {checkLimitNoClient(redis, LimitOf(key))} :
              /\ limLast' = Answer(key, WindowKey(key, now), r)
              /\ limAllowed' = CountAnswer(WindowKey(key, now), r.allowed)
              /\ UNCHANGED limPending
       ELSE /\ limPending' = InFlight(WindowKey(key, now), 1)
            /\ UNCHANGED <<limLast, limAllowed>>
    /\ UNCHANGED <<utilVars, mcpVars, limLate, ingestVars, queueVars>>

\* The transaction of a call in flight runs and the call returns; when the
\* round trip fails the call throws: it returns nothing and changes nothing.
CheckLimitExec ==
  \E wk \in DOMAIN limPending, up \in BOOLEAN :
    /\ limPending' = InFlight(wk, -1)
    /\ IF ~up
       THEN /\ limLast' = [status |-> "THREW", key |-> KeyOf(wk), wk |-> wk]
            /\ UNCHANGED <<redis, limAllowed, limLate>>
       ELSE \E r \in {checkLimitExec(redis, wk, LimitOf(wk), now)} :
              /\ redis' = r.store
              /\ limLast' = Answer(KeyOf(wk), wk, r)
              /\ limAllowed' = CountAnswer(wk, r.allowed)
              /\ limLate' = IF now \div WindowSeconds # wk.win
                            THEN limLate \cup {wk} ELSE limLate
    /\ UNCHANGED <<utilVars, now, redisClient, crmProvider, nextUuid, syncLog, mcpCalls, mcpLast,
                   limCalls, ingestVars, queueVars>>

LimiterNext == CheckLimitBegin \/ CheckLimitExec \/ Tick

\* The executor plays no part in the limiter: one configuration of it is enough.
LimiterInit == BaseInit /\ crmProvider = "mock"

SpecLimiter == LimiterInit /\ [][LimiterNext]_vars

(* ---------------------------------------------------------------------- *)
(* LeadsService.create, step by step (each await is a step)                *)
(* ---------------------------------------------------------------------- *)
\* sha256(`${email}:${campaign_id}`): the digest stands for its preimage.
IdempotencyKey(dto) == EmailStr(dto.email) \o ":" \o dto.campaign_id

FindByKey(key) == {id \in DOMAIN leads : leads[id].idempotencyKey = key}

NewLead(id, dto) ==
  [id |-> id, idempotencyKey |-> IdempotencyKey(dto), email |-> dto.email,
   campaignId |-> dto.campaign_id, name |-> dto.name, status |-> "PENDING",
   analysis |-> None]

NewJob(leadId) ==
  [leadId |-> leadId, attempts |-> MaxAttempts, attemptsMade |-> 0, stalledCount |-> 0,
   state |-> "waiting", pc |-> "start", ai |-> None, enrichment |-> None,
   mcpStatus |-> "NONE", success |-> FALSE, failedReason |-> "", lastError |-> ""]

\* leadRepository.findOne({ where: { idempotencyKey } }) and the early return.
CreateFind(r) ==
  \E dto \in Dtos :
    /\ req[r].pc = "idle"
    /\ LET found == FindByKey(IdempotencyKey(dto))
       IN req' = [req EXCEPT ![r] =
                    IF found # {}
                    THEN [pc |-> "returned", dto |-> dto,
                          result |-> Some(CHOOSE id \in found : TRUE), error |-> ""]
                    ELSE [pc |-> "save", dto |-> dto, result |-> None, error |-> ""]]
    /\ UNCHANGED <<utilVars, mcpVars, limVars, leads, queueVars>>

\* leadRepository.save(lead): the unique index on idempotencyKey rejects a second row.
CreateSave(r) ==
    /\ req[r].pc = "save"
    /\ IF FindByKey(IdempotencyKey(req[r].dto)) # {}
       THEN /\ req' = [req EXCEPT ![r].pc = "threw",
                                  ![r].error = "duplicate key value violates unique constraint"]
            /\ UNCHANGED leads
       ELSE /\ leads' = Append(leads, NewLead(Len(leads) + 1, req[r].dto))
            /\ req' = [req EXCEPT ![r].pc = "enqueue", ![r].result = Some(Len(leads) + 1)]
    /\ UNCHANGED <<utilVars, mcpVars, limVars, queueVars>>

\* leadQueue.add('process-lead', { leadId }, { attempts: 5, backoff }) and the return.
CreateEnqueue(r) ==
  \E queueUp \in BOOLEAN :
    /\ req[r].pc = "enqueue"
    /\ IF queueUp
       THEN /\ jobs' = Append(jobs, NewJob(Val(req[r].result)))
            /\ req' = [req EXCEPT ![r].pc = "returned"]
       ELSE /\ req' = [req EXCEPT ![r].pc = "threw", ![r].result = None,
                                  ![r].error = "queue unavailable"]
            /\ UNCHANGED jobs
    /\ UNCHANGED <<utilVars, mcpVars, limVars, leads, failedEvents, dlq, peerVars>>

\* Concurrent ingest requests.
Ingest == \E r \in 1..MaxRequests : CreateFind(r) \/ CreateSave(r) \/ CreateEnqueue(r)

SpecIngest == BaseInit /\ [][Ingest]_vars

(* ---------------------------------------------------------------------- *)
(* The lead-processing worker and the dead-letter path                     *)
(* ---------------------------------------------------------------------- *)
\* The queue's reaction to a throwing attempt: retry while attempts remain,
\* else move the job to failed and emit 'failed'.
FailAttempt(job, reason) ==
  IF job.attemptsMade + 1 < job.attempts
  THEN [job EXCEPT !.attemptsMade = @ + 1, !.state = "waiting", !.pc = "start",
                   !.lastError = reason]
  ELSE [job EXCEPT !.attemptsMade = @ + 1, !.state = "failed", !.failedReason = reason,
                   !.lastError = reason]

\* A worker takes a waiting job.
Lease ==
  \E j \in DOMAIN jobs :
    /\ jobs[j].state = "waiting"
    /\ jobs' = [jobs EXCEPT ![j].state = "active", ![j].pc = "start",
                            ![j].ai = None, ![j].enrichment = None,
                            ![j].mcpStatus = "NONE"]
    /\ UNCHANGED <<utilVars, mcpVars, limVars, ingestVars, failedEvents, dlq, peerVars>>

\* LeadProcessor.process up to leadRepository.save(lead): load, analyse, persist.
\* The job keeps the analysis returned to the processor and, for the record,
\* the company the enrichment lookup inside analyzeLead gave the validator.
ProcessAnalyze ==
  \E j \in DOMAIN jobs, dbUp \in BOOLEAN, out \in ProviderOutputs, enrichmentUp \in BOOLEAN :
    /\ jobs[j].state = "active" /\ jobs[j].pc = "start"
    /\ LET id == jobs[j].leadId
       IN IF ~dbUp \/ id \notin DOMAIN leads
          THEN \E failed \in {FailAttempt(jobs[j],
                                 IF dbUp THEN "Lead not found" ELSE "database error")} :
                 /\ jobs' = [jobs EXCEPT ![j] = failed]
                 /\ failedEvents' = IF failed.state = "failed"
                                    THEN failedEvents \cup {j} ELSE failedEvents
                 /\ peerEvents' = IF failed.state = "failed" /\ instances > 1
                                  THEN peerEvents \cup {j} ELSE peerEvents
                 /\ UNCHANGED leads
          ELSE \E a \in {analyzeLead(leads[id].email, out, enrichmentUp)} :
                 /\ leads' = [leads EXCEPT ![id].status = "ENRICHED", ![id].analysis = Some(a)]
                 /\ jobs' = [jobs EXCEPT ![j].pc = "saved", ![j].ai = Some(a),
                                          ![j].enrichment =
                                            IF enrichmentUp
                                            THEN getCompanyByEmail(leads[id].email)
                                            ELSE None]
                 /\ UNCHANGED <<failedEvents, peerEvents>>
    /\ UNCHANGED <<utilVars, mcpVars, limVars, req, dlq, instances>>

\* extractEnrichmentData(lead): lead.enrichmentData is never written, so it is null.
extractEnrichmentData(lead) == None

\* LeadProcessor.process: the call of mcpService.processAfterGrounding.
ProcessMcp ==
  \E j \in DOMAIN jobs, up \in BOOLEAN :
    /\ jobs[j].state = "active" /\ jobs[j].pc = "saved"
    /\ (up \/ redisClient)
    /\ LET lead == leads[jobs[j].leadId]
           ai == Val(jobs[j].ai)
       IN \E r \in {processAfterGrounding(lead, ai, extractEnrichmentData(lead), redis,
                                          redisClient, up, crmProvider, nextUuid, now)} :
            /\ redis' = r.store
            /\ nextUuid' = r.uuid
            /\ syncLog' = syncLog \o r.rows
            /\ mcpLast' = Invocation(lead, ai, extractEnrichmentData(lead), up, r)
            /\ jobs' = [jobs EXCEPT ![j].pc = "mcp", ![j].mcpStatus = r.status]
    /\ UNCHANGED <<utilVars, now, redisClient, crmProvider, mcpCalls, limVars, ingestVars, failedEvents, dlq,
                   peerVars>>

\* LeadProcessor.process after the MCP call: every MCP outcome returns a result
\* normally (success only for COMPLETED), so the queue marks the job completed.
ProcessReturn ==
  \E j \in DOMAIN jobs :
    /\ jobs[j].state = "active" /\ jobs[j].pc = "mcp"
    /\ jobs' = [jobs EXCEPT ![j].state = "completed", ![j].pc = "returned",
                            ![j].success = (jobs[j].mcpStatus \notin
                               {"REJECTED_BY_GROUNDING", "RATE_LIMITED", "BLOCKED"})]
    /\ UNCHANGED <<utilVars, mcpVars, limVars, ingestVars, failedEvents, dlq, peerVars>>

\* The lease of an active job expires (its worker died): the queue hands the
\* job out again, or fails it once it has stalled more than MaxStalledCount times.
Stall ==
  \E j \in DOMAIN jobs :
    /\ jobs[j].state = "active"
    /\ IF jobs[j].stalledCount < MaxStalledCount
       THEN /\ jobs' = [jobs EXCEPT ![j].state = "waiting", ![j].pc = "start",
                                    ![j].stalledCount = @ + 1]
            /\ UNCHANGED <<failedEvents, peerEvents>>
       ELSE /\ jobs' = [jobs EXCEPT ![j].state = "failed",
                                    ![j].failedReason = "job stalled more than allowable limit"]
            /\ failedEvents' = failedEvents \cup {j}
            /\ peerEvents' = IF instances > 1 THEN peerEvents \cup {j} ELSE peerEvents
    /\ UNCHANGED <<utilVars, mcpVars, limVars, ingestVars, dlq, instances>>

\* DlqEventListener.handleFailedJob; the listener exists only when REDIS_URL is set.
HandleFailedJob ==
  \E j \in failedEvents :
    /\ redisClient
    /\ failedEvents' = failedEvents \ {j}
    /\ LET job == jobs[j]
           maxAttempts == job.attempts
       IN dlq' = IF job.attemptsMade >= maxAttempts
                 THEN Append(dlq, [originalJobId |-> j, leadId |-> job.leadId,
                                   failedAt |-> now, error |-> job.failedReason,
                                   attemptsMade |-> job.attemptsMade, state |-> "waiting"])
                 ELSE dlq
    /\ UNCHANGED <<utilVars, mcpVars, limVars, ingestVars, jobs, peerVars>>

\* DlqEventListener.handleFailedJob in the second instance: its own QueueEvents
\* connection delivers the same 'failed' event to it.
HandleFailedJobPeer ==
  \E j \in peerEvents :
    /\ redisClient
    /\ peerEvents' = peerEvents \ {j}
    /\ LET job == jobs[j]
           maxAttempts == job.attempts
       IN dlq' = IF job.attemptsMade >= maxAttempts
                 THEN Append(dlq, [originalJobId |-> j, leadId |-> job.leadId,
                                   failedAt |-> now, error |-> job.failedReason,
                                   attemptsMade |-> job.attemptsMade, state |-> "waiting"])
                 ELSE dlq
    /\ UNCHANGED <<utilVars, mcpVars, limVars, ingestVars, jobs, failedEvents, instances>>

\* DlqProcessor.process
DlqProcess ==
  \E d \in DOMAIN dlq, dbUp \in BOOLEAN :
    /\ dlq[d].state = "waiting"
    /\ IF ~dbUp
       THEN /\ dlq' = [dlq EXCEPT ![d].state = "failed"]
            /\ UNCHANGED leads
       ELSE /\ dlq' = [dlq EXCEPT ![d].state = "completed"]
            /\ leads' = IF dlq[d].leadId \in DOMAIN leads
                        THEN [leads EXCEPT ![dlq[d].leadId].status = "PERMANENTLY_FAILED"]
                        ELSE leads
    /\ UNCHANGED <<utilVars, mcpVars, limVars, req, jobs, failedEvents, peerVars>>

\* One ingest request followed through the worker and the dead-letter path.
Next ==
  \/ CreateFind(1) \/ CreateSave(1) \/ CreateEnqueue(1)
  \/ Lease \/ ProcessAnalyze \/ ProcessMcp \/ ProcessReturn \/ Stall
  \/ HandleFailedJob \/ DlqProcess
  \/ Tick

Spec == BaseInit /\ [][Next]_vars

\* Two application instances on the same queues, and in lead-processing a job
\* whose lead row is no longer in the table.
WorkersInit ==
  /\ SharedInit
  /\ redisClient /\ crmProvider = "mock"
  /\ jobs = <<NewJob(1)>>
  /\ instances = 2

WorkersNext ==
  \/ Lease \/ ProcessAnalyze \/ Stall
  \/ HandleFailedJob \/ HandleFailedJobPeer \/ DlqProcess
  \/ Tick

SpecWorkers == WorkersInit /\ [][WorkersNext]_vars

(* ---------------------------------------------------------------------- *)
(* Properties of the MCP layer and the limiter                             *)
(* ---------------------------------------------------------------------- *)
Invoked == mcpLast.status # "NONE"
NoToolExecuted ==
  /\ mcpLast.executed = <<>>
  /\ mcpLast.rows = <<>>
  /\ Len(syncLog) = mcpLast.logBefore

\* C1: every processAfterGrounding call whose analysis has grounding_status
\* REJECTED returns REJECTED_BY_GROUNDING, calls no executor and adds no
\* crm_sync_logs row, for every lead and after any earlier invocations.
C1_RejectedExecutesNothing ==
  (Invoked /\ mcpLast.ai.grounding_status = "REJECTED")
    => (mcpLast.status = "REJECTED_BY_GROUNDING" /\ NoToolExecuted)

\* A rejected analysis arrives after an earlier invocation has written rows.
C1_Witness ==
  /\ Invoked
  /\ mcpLast.ai.grounding_status = "REJECTED"
  /\ mcpLast.status = "REJECTED_BY_GROUNDING"
  /\ mcpLast.logBefore > 0
  /\ mcpCalls >= 2

AllowedWithinLimit ==
  \A wk \in DOMAIN limAllowed : limAllowed[wk] <= LimitOf(wk)

\* C3 (as amended): with a Redis client injected, for one key and one window,
\* of the checkLimit calls whose transaction runs within the window in which
\* the call read the clock, sequential or concurrent, at most `limit` answer
\* allowed = true; without a client every call answers allowed = true.
C3_AtMostLimitAllowed ==
  /\ redisClient =>
       \A wk \in DOMAIN limAllowed : wk \notin limLate => limAllowed[wk] <= LimitOf(wk)
  /\ (~redisClient /\ limLast.status = "RETURNED") => limLast.allowed

\* With other calls still in flight, the call after the limit-th allowed one
\* of a window is denied.
C3_Witness ==
  /\ redisClient
  /\ limLast.status = "RETURNED"
  /\ ~limLast.allowed
  /\ limLast.current = limLast.limit + 1
  /\ limLast.wk \notin limLate
  /\ limAllowed[limLast.wk] = limLast.limit
  /\ limLast.wk \in DOMAIN limPending

\* C3 as stated: at most `limit` calls of one key and window answer allowed,
\* in every configuration and whenever the transactions run.
C3_Original == AllowedWithinLimit

RateLimitedByLead ==
  /\ mcpLast.status = "RATE_LIMITED"
  /\ mcpLast.violations # <<>>
  /\ mcpLast.violations[1].text = "Per-lead rate limit exceeded"
  /\ NoToolExecuted

\* C4 (as amended): when the per-lead counter of the current window has
\* reached the per-lead limit, the next processAfterGrounding call for that
\* lead whose analysis is not REJECTED and whose limiter round trip succeeds
\* returns RATE_LIMITED with a first violation 'Per-lead rate limit exceeded'
\* and executes no tool.
C4_PerLeadLimitHalts ==
  (/\ Invoked
   /\ mcpLast.perLeadBefore >= PerLeadLimit
   /\ mcpLast.ai.grounding_status # "REJECTED"
   /\ mcpLast.up)
    => RateLimitedByLead

\* The counter stands exactly at the limit and the call is rate limited.
C4_Witness ==
  /\ Invoked
  /\ mcpLast.perLeadBefore = PerLeadLimit
  /\ mcpLast.ai.grounding_status # "REJECTED"
  /\ mcpLast.up
  /\ RateLimitedByLead

\* C4 as stated: with the counter at the limit, the next call for the lead is
\* rate limited, whatever the analysis and the state of the limiter back end.
C4_Original ==
  (Invoked /\ mcpLast.perLeadBefore = PerLeadLimit) => RateLimitedByLead

(* ---------------------------------------------------------------------- *)
(* Properties of ingest                                                    *)
(* ---------------------------------------------------------------------- *)
Finished(r) == req[r].pc \in {"returned", "threw"}
SamePair(r1, r2) ==
  /\ req[r1].dto.email = req[r2].dto.email
  /\ req[r1].dto.campaign_id = req[r2].dto.campaign_id
RowsOf(dto) ==
  {id \in DOMAIN leads : leads[id].email = dto.email /\ leads[id].campaignId = dto.campaign_id}

\* C2: of any two finished ingests with identical (email, campaignId), also
\* when their find and save steps interleave, exactly one Lead row exists and
\* both calls succeed with the same lead id (stated for the runs in which the
\* queue accepts every job).
C2_Original ==
  \A r1, r2 \in 1..MaxRequests :
    (/\ r1 # r2
     /\ Finished(r1) /\ Finished(r2)
     /\ SamePair(r1, r2)
     /\ req[r1].error # "queue unavailable" /\ req[r2].error # "queue unavailable")
      => (/\ Cardinality(RowsOf(req[r1].dto)) = 1
          /\ req[r1].pc = "returned" /\ req[r2].pc = "returned"
          /\ req[r1].result = req[r2].result)

(* ---------------------------------------------------------------------- *)
(* Properties of the worker and the dead-letter path                       *)
(* ---------------------------------------------------------------------- *)
Returned(j) == jobs[j].pc = "returned"
StatusOf(j) == leads[jobs[j].leadId].status

\* C5: a job whose MCP call returned RATE_LIMITED is failed and re-queued by
\* the worker; it is never acknowledged as completed.
C5_Original ==
  \A j \in DOMAIN jobs :
    jobs[j].mcpStatus = "RATE_LIMITED" => jobs[j].state # "completed"

AllowedTransitions ==
  {<<"PENDING", "ENRICHED">>, <<"ENRICHED", "SYNCED_TO_CRM">>, <<"ENRICHED", "AI_REJECTED">>,
   <<"ENRICHED", "MCP_BLOCKED">>, <<"PENDING", "PERMANENTLY_FAILED">>}

\* C6: Lead.status changes only along PENDING->ENRICHED, ENRICHED->SYNCED_TO_CRM,
\* ENRICHED->AI_REJECTED, ENRICHED->MCP_BLOCKED and PENDING->PERMANENTLY_FAILED,
\* in every run, including retries, redeliveries and dead-letter jobs.
C6_Original ==
  [][\A id \in DOMAIN leads :
       leads'[id].status # leads[id].status
         => <<leads[id].status, leads'[id].status>> \in AllowedTransitions]_vars

\* C7: when the MCP call of a job returned COMPLETED and the job has finished,
\* the lead's persisted status is SYNCED_TO_CRM.
C7_Original ==
  \A j \in DOMAIN jobs :
    (Returned(j) /\ jobs[j].mcpStatus = "COMPLETED") => StatusOf(j) = "SYNCED_TO_CRM"

\* C8: when grounding yielded REJECTED for the lead of a job, the MCP call is
\* short-circuited and, once the job has finished, the lead is AI_REJECTED.
C8_Original ==
  \A j \in DOMAIN jobs :
    (Returned(j) /\ Val(jobs[j].ai).grounding_status = "REJECTED")
      => (jobs[j].mcpStatus = "REJECTED_BY_GROUNDING" /\ StatusOf(j) = "AI_REJECTED")

\* C9: when the MCP call of a job returned BLOCKED or RATE_LIMITED, the lead's
\* persisted status is MCP_BLOCKED once the worker is done with that run.
C9_Original ==
  \A j \in DOMAIN jobs :
    (Returned(j) /\ jobs[j].mcpStatus \in {"BLOCKED", "RATE_LIMITED"})
      => StatusOf(j) = "MCP_BLOCKED"

Exhausted(j) == jobs[j].state = "failed" /\ jobs[j].attemptsMade >= jobs[j].attempts
DlqEntriesOf(j) == {d \in DOMAIN dlq : dlq[d].originalJobId = j}
\* A step of the dead-letter path is still to come for job j.
DlqPending(j) ==
  \/ j \in failedEvents /\ redisClient
  \/ \E d \in DlqEntriesOf(j) : dlq[d].state = "waiting"

\* C10: every job whose attemptsMade has reached its attempts gets a DLQ entry
\* {originalJobId, leadId, error, attemptsMade, failedAt} and its lead becomes
\* PERMANENTLY_FAILED (stated for the states in which no step of the
\* dead-letter path is left to run); a failed job with fewer attempts made
\* never gets a DLQ entry.
C10_Original ==
  /\ \A j \in DOMAIN jobs :
       (Exhausted(j) /\ ~DlqPending(j))
         => (/\ \E d \in DlqEntriesOf(j) :
                  /\ dlq[d].leadId = jobs[j].leadId
                  /\ dlq[d].attemptsMade = jobs[j].attemptsMade
                  /\ dlq[d].error = jobs[j].failedReason
             /\ StatusOf(j) = "PERMANENTLY_FAILED")
  /\ \A d \in DOMAIN dlq :
       jobs[dlq[d].originalJobId].attemptsMade >= jobs[dlq[d].originalJobId].attempts

(* ---------------------------------------------------------------------- *)
(* Properties of the audit trail                                           *)
(* ---------------------------------------------------------------------- *)
\* C11: every crm_sync_logs row written during one MCP invocation carries the
\* execution id that processAfterGrounding returns for that invocation, so
\* the rows of one invocation share one mcpExecutionId.
C11_Original ==
  Invoked =>
    \A i \in 1..Len(mcpLast.rows) :
      /\ mcpLast.rows[i].mcpExecutionId # 0
      /\ mcpLast.rows[i].mcpExecutionId = mcpLast.executionId

HoldsPII(value) == containsEmail(value) \/ containsPhone(value)

\* C12: every persisted crm_sync_logs row stores its params redacted: no
\* stored string holds an email address or ten or more consecutive digits.
C12_Original ==
  \A i \in 1..Len(syncLog) :
    \A k \in DOMAIN syncLog[i].params.strs : ~HoldsPII(syncLog[i].params.strs[k])

\* The rows that record the upsert of the lead with this address.
UpsertRowsOf(email) ==
  {i \in 1..Len(syncLog) :
     /\ syncLog[i].action = "upsert_lead"
     /\ syncLog[i].params.strs["email"] = EmailStr(email)}

\* C13: when the same action for the same (email, campaignId) is driven twice
\* within the TTL of the idempotency store (48 hours; every run of the model
\* is shorter), for example because the job is delivered again, the executor
\* performs the side effect at most once.
C13_Original ==
  \A id \in DOMAIN leads : Cardinality(UpsertRowsOf(leads[id].email)) <= 1

(* ---------------------------------------------------------------------- *)
(* Properties of the executor layer                                        *)
(* ---------------------------------------------------------------------- *)
\* C15: every executor call made for a tool runs inside the circuit breaker
\* of that executor and operation and takes exactly one token of the
\* CRM-provider bucket (stated for the configurations with a Redis client,
\* where the bucket counts), for the mock and for the real executor.
C15_Original ==
  (Invoked /\ redisClient) =>
     /\ \A i \in 1..Len(mcpLast.executed) :
          BreakerName(crmProvider, mcpLast.executed[i]) \in breakers
     /\ mcpLast.crmTokens = Len(mcpLast.executed)

Range(seq) == {seq[i] : i \in 1..Len(seq)}

\* C16: in processAfterGrounding, when the critical action (upsert_lead) is
\* executed and fails, the result is BLOCKED with halt = true and no later
\* action of the plan is executed; when a non-critical action fails, its
\* error is added to errors[] and the remaining actions still execute.
C16_CriticalHaltsOthersContinue ==
  (Invoked /\ IsSome(mcpLast.planned)) =>
    LET res == mcpLast.results
        plan == buildActionPlan(mcpLast.lead, mcpLast.ai, mcpLast.enr)
        At(tool) == CHOOSE k \in 1..Len(plan) : plan[k].toolName = tool
        Runnable(k) == /\ isActionAllowed(plan[k].toolName)
                       /\ validateActionParams(plan[k].params).passed
    IN \A i \in 1..Len(res) :
         ~res[i].success =>
           IF plan[At(res[i].tool)].critical
           THEN /\ mcpLast.status = "BLOCKED"
                /\ mcpLast.halt
                /\ i = Len(res)
                /\ \A k \in (At(res[i].tool) + 1)..Len(plan) :
                     plan[k].toolName \notin Range(mcpLast.executed)
           ELSE /\ (res[i].tool \o " failed") \in Range(mcpLast.errors)
                /\ \A k \in (At(res[i].tool) + 1)..Len(plan) :
                     Runnable(k) => \E j \in (i + 1)..Len(res) : res[j].tool = plan[k].toolName

\* The critical upsert_lead fails and halts a plan of several actions, after
\* an earlier invocation whose set_lead_score failed while the actions planned
\* after it still ran and wrote their rows.
C16_Witness ==
  /\ Invoked
  /\ mcpLast.status = "BLOCKED" /\ mcpLast.halt
  /\ mcpLast.results = <<[tool |-> "upsert_lead", success |-> FALSE]>>
  /\ Len(Val(mcpLast.planned)) > 1
  /\ mcpLast.rows = <<>>
  /\ [i \in 1..Len(syncLog) |-> syncLog[i].action]
       = <<"upsert_lead", "sync_firmographics", "log_activity">>

\* a is b with some items left out, the order kept.
RECURSIVE IsSubsequence(_, _)
IsSubsequence(a, b) ==
  IF a = <<>> THEN TRUE
  ELSE IF b = <<>> THEN FALSE
  ELSE IF Head(a) = Head(b) THEN IsSubsequence(Tail(a), Tail(b))
  ELSE IsSubsequence(a, Tail(b))

\* The plan the claim describes for an analysis and an enrichment record.
PlanOfClaim(ai, enr) ==
  <<"upsert_lead">>
    \o (IF IsSome(ai.fitScore) THEN <<"set_lead_score">> ELSE <<>>)
    \o (IF IsSome(enr) THEN <<"sync_firmographics">> ELSE <<>>)
    \o <<"log_activity">>

C18_InvalidCallHasNoEffect ==
  (/\ regLast.status = "RETURNED"
   /\ (regLast.toolName \notin RegisteredTools \/ ~regLast.conforms))
    => (/\ ~regLast.success
        /\ ~regLast.invoked
        /\ regLast.rows = <<>>
        /\ Len(syncLog) = regLast.logBefore
        /\ nextUuid = regLast.uuidBefore)

\* A call with a score outside the schema's range is refused by the mock
\* executor's registry after an earlier call has written a row.
C18_Witness ==
  /\ regLast.status = "RETURNED"
  /\ regLast.toolName = "set_lead_score"
  /\ ~regLast.conforms
  /\ ~regLast.success
  /\ crmProvider = "mock"
  /\ regLast.logBefore > 0
  /\ Len(syncLog) = regLast.logBefore

(* ---------------------------------------------------------------------- *)
(* Properties of the grounding validator                                   *)
(* ---------------------------------------------------------------------- *)
Analysed == aiLast.status = "RETURNED" /\ IsSome(aiLast.analysis)
EvidenceOf == Val(aiLast.analysis).evidence
CitesUnauthorized == \E i \in 1..Len(EvidenceOf) : EvidenceOf[i].source \notin GroundingSource
ClaimsFirmographic == \E i \in 1..Len(EvidenceOf) : EvidenceOf[i].claim_type = "FIRMOGRAPHIC"
RejectedWith(message) ==
  /\ aiLast.result.grounding_status = "REJECTED"
  /\ aiLast.result.grounding_errors = Some(<<message>>)
  /\ aiLast.result.reasoning = "Analysis Failed: " \o message

\* The message is '... unauthorized source: <src>' for the unauthorized
\* sources of the evidence, in their order.
NamesUnauthorized(message) ==
  \E i, j \in 1..Len(EvidenceOf) :
    /\ EvidenceOf[i].source \notin GroundingSource
    /\ EvidenceOf[j].source \notin GroundingSource
    /\ \/ message = UnauthorizedSource(EvidenceOf[i].source)
       \/ i < j /\ message = UnauthorizedSource(EvidenceOf[i].source \o ", " \o EvidenceOf[j].source)

\* C19 (as amended): every analysis with an evidence item whose source is
\* outside {SALESFORCE, MARKETO, PRODUCT, ENRICHMENT, COMPUTED} is REJECTED,
\* whatever the other evidence, the intent and the enrichment record are; its
\* error is '... unauthorized source: <src>' unless a firmographic claim is
\* present while enrichment is absent, or an ENRICHMENT firmographic claim
\* conflicts with the enrichment record: these two checks run before the
\* source check and then the error is theirs.
C19_UnauthorizedRejected ==
  (Analysed /\ CitesUnauthorized) =>
    IF ClaimsFirmographic /\ ~IsSome(aiLast.enrichment)
    THEN RejectedWith(FirmographicWithoutEnrichment)
    ELSE IF \E i \in 1..Len(EvidenceOf) :
              /\ EvidenceOf[i].claim_type = "FIRMOGRAPHIC"
              /\ Conflicts(EvidenceOf[i], Val(aiLast.enrichment))
    THEN RejectedWith(HallucinationDetected)
    ELSE /\ aiLast.result.grounding_status = "REJECTED"
         /\ \E m \in {Val(aiLast.result.grounding_errors)[1]} :
              NamesUnauthorized(m) /\ RejectedWith(m)

\* An unauthorized source next to a firmographic claim that agrees with the
\* enrichment record: rejected for the source.
C19_Witness ==
  /\ Analysed
  /\ Len(EvidenceOf) = 2
  /\ EvidenceOf[1].source = "WEB_SEARCH"
  /\ EvidenceOf[2].source = "ENRICHMENT" /\ EvidenceOf[2].value = "Fintech"
  /\ IsSome(aiLast.enrichment)
  /\ RejectedWith(UnauthorizedSource("WEB_SEARCH"))

\* C19 as stated: an unauthorized source is reported as such whatever else the
\* analysis holds, also next to a firmographic claim without enrichment.
C19_Original ==
  (Analysed /\ CitesUnauthorized) =>
    /\ aiLast.result.grounding_status = "REJECTED"
    /\ NamesUnauthorized(Val(aiLast.result.grounding_errors)[1])

\* C20: every analysis with an evidence item of claim_type FIRMOGRAPHIC while
\* the enrichment record is absent is REJECTED, and its reasoning and errors
\* hold 'firmographic claims without available enrichment'.
C20_FirmographicNeedsEnrichment ==
  (Analysed /\ ClaimsFirmographic /\ ~IsSome(aiLast.enrichment))
    => RejectedWith(FirmographicWithoutEnrichment)

\* A firmographic claim that would agree with the company of the address,
\* while the enrichment lookup failed.
C20_Witness ==
  /\ Analysed
  /\ aiLast.email = Email("john", "stripe.com")
  /\ ~IsSome(aiLast.enrichment)
  /\ EvidenceOf = <<Evidence("ENRICHMENT", <<"enrichment", "industry">>, "Fintech", "FIRMOGRAPHIC")>>
  /\ RejectedWith(FirmographicWithoutEnrichment)

\* The trusted value of evidence item i: enrichment[last segment of field_path].
TrustedOf(i) ==
  TruthValue(Val(aiLast.enrichment), EvidenceOf[i].field_path[Len(EvidenceOf[i].field_path)])
EnrichmentClaim(i) ==
  EvidenceOf[i].source = "ENRICHMENT" /\ EvidenceOf[i].claim_type = "FIRMOGRAPHIC"
Disagrees(i) ==
  /\ IsSome(TrustedOf(i))
  /\ ~Includes(LowerStr(Val(TrustedOf(i))), LowerStr(EvidenceOf[i].value))
  /\ ~Includes(LowerStr(EvidenceOf[i].value), LowerStr(Val(TrustedOf(i))))

\* C21: an ENRICHMENT firmographic claim whose trusted value exists and
\* neither contains nor is contained in the claimed value (case-insensitive)
\* makes the result REJECTED with an error starting 'Hallucination detected';
\* claims whose trusted field is missing do not reject an analysis that holds
\* nothing else than such claims and authorised non-firmographic evidence.
C21_ConflictRejectsMissingSkipped ==
  (Analysed /\ IsSome(aiLast.enrichment)) =>
    /\ (\E i \in 1..Len(EvidenceOf) : EnrichmentClaim(i) /\ Disagrees(i))
          => RejectedWith(HallucinationDetected)
    /\ (\A i \in 1..Len(EvidenceOf) :
           \/ EnrichmentClaim(i) /\ ~IsSome(TrustedOf(i))
           \/ EvidenceOf[i].claim_type # "FIRMOGRAPHIC" /\ EvidenceOf[i].source \in GroundingSource)
          => aiLast.result.grounding_status # "REJECTED"

\* A claim contained in the trusted value passes, the next one disagrees with
\* it; the company is found under a domain written with a capital.
C21_Witness ==
  /\ Analysed
  /\ aiLast.email = Email("ann", "Stripe.com")
  /\ IsSome(aiLast.enrichment)
  /\ Len(EvidenceOf) = 2
  /\ EvidenceOf[1].value = "Fin" /\ EnrichmentClaim(1) /\ ~Disagrees(1)
  /\ EvidenceOf[2].value = "Healthcare" /\ EnrichmentClaim(2) /\ Disagrees(2)
  /\ RejectedWith(HallucinationDetected)

\* One of the hard rules rejects the analysis: an unauthorized source, a
\* firmographic claim without enrichment, or a claim that disagrees with it.
HardRuleViolated ==
  \/ CitesUnauthorized
  \/ ClaimsFirmographic /\ ~IsSome(aiLast.enrichment)
  \/ /\ IsSome(aiLast.enrichment)
     /\ \E i \in 1..Len(EvidenceOf) : EnrichmentClaim(i) /\ Disagrees(i)
LacksBehavioralEvidence ==
  /\ Val(aiLast.analysis).intent = "High Fit"
  /\ ~\E i \in 1..Len(EvidenceOf) :
        EvidenceOf[i].source \in {"PRODUCT", "MARKETO", "COMPUTED", "SALESFORCE"}

GivenAnalysis == Val(aiLast.analysis)
\* decision, reasoning and evidence as given; intent and fitScore as given
\* unless the outcome is DOWNGRADED.
SameButStamped ==
  /\ aiLast.result.decision = GivenAnalysis.decision
  /\ aiLast.result.reasoning = GivenAnalysis.reasoning
  /\ aiLast.result.evidence = GivenAnalysis.evidence
  /\ aiLast.result.grounding_status # "DOWNGRADED" =>
       /\ aiLast.result.intent = GivenAnalysis.intent
       /\ aiLast.result.fitScore = GivenAnalysis.fitScore

C25_StoredEvidenceAuthorized ==
  \A id \in DOMAIN leads :
    IsSome(leads[id].analysis) =>
      \A i \in 1..Len(Val(leads[id].analysis).evidence) :
        Val(leads[id].analysis).evidence[i].source
          \in {"SALESFORCE", "MARKETO", "PRODUCT", "ENRICHMENT", "COMPUTED"}

\* The provider cited WEB_SEARCH: the lead is stored REJECTED and without evidence.
C25_Witness ==
  \E id \in DOMAIN leads :
    /\ leads[id].status = "ENRICHED"
    /\ IsSome(leads[id].analysis)
    /\ Val(leads[id].analysis).grounding_status = "REJECTED"
    /\ Val(leads[id].analysis).grounding_errors = Some(<<UnauthorizedSource("WEB_SEARCH")>>)
    /\ Val(leads[id].analysis).evidence = <<>>

(* ---------------------------------------------------------------------- *)
(* Properties of the context checks, the registry and the limiter outage   *)
(* ---------------------------------------------------------------------- *)
\* The reasons the context checks give for the lead of the last invocation
\* when its analysis is not REJECTED (execution id and timestamp are drawn by
\* the invocation itself).
LeadReasons ==
  (IF mcpLast.lead.email = NoEmail THEN <<"Email is required for any CRM operation">> ELSE <<>>)
  \o (IF mcpLast.lead.id = 0 THEN <<"Lead ID is required">> ELSE <<>>)
ContextCheckFails == mcpLast.ai.grounding_status = "REJECTED" \/ LeadReasons # <<>>

C28_Original == \A name \in tools : ~MatchesBlockedPattern(name)

\* The tools the specification requires of the registry.
RequiredTools ==
  {"create_lead", "upsert_lead", "convert_lead", "update_lead_status", "update_lead_fields",
   "set_lead_score", "match_account", "create_contact", "link_contact_to_account",
   "create_opportunity", "update_opportunity_stage", "set_opportunity_value",
   "attach_campaign", "create_task", "log_activity", "add_note", "create_follow_up",
   "sync_firmographics"}

\* C29 as stated: the registry holds every required tool.
C29_Original == RequiredTools \subseteq tools

\* The limiter back end is out: no Redis client, or the Redis call throws.
LimiterOutage == ~redisClient \/ ~mcpLast.up

\* C30: on an outage of the limiter back end the invocation is never
\* RATE_LIMITED and carries no rate violation; the limiter counts nothing, and
\* an invocation whose context checks hold goes on to plan and run its actions.
C30_LimiterFailsOpen ==
  (Invoked /\ LimiterOutage /\ mcpLast.ai.grounding_status # "REJECTED") =>
    /\ mcpLast.status # "RATE_LIMITED"
    /\ ~mcpLast.limiterReached
    /\ IF LeadReasons # <<>>
       THEN mcpLast.status = "BLOCKED" /\ mcpLast.violations = LeadReasons
       ELSE /\ mcpLast.violations = <<>>
            /\ IsSome(mcpLast.planned)
            /\ mcpLast.results # <<>>

\* The lead's counter stands at its limit, the Redis call throws, and the
\* actions run all the same.
C30_Witness ==
  /\ Invoked
  /\ redisClient /\ ~mcpLast.up
  /\ mcpLast.perLeadBefore = PerLeadLimit
  /\ mcpLast.status = "COMPLETED"
  /\ mcpLast.executed # <<>>

(* ---------------------------------------------------------------------- *)
(* Properties of the idempotency keys                                      *)
(* ---------------------------------------------------------------------- *)
\* trim(lower(s)) of the claim, written out on the characters of the model.
Normalized(str) == trim([i \in 1..Len(str) |-> IF str[i] = "A" THEN "a" ELSE str[i]])
NormalizedCampaign(campaignId) ==
  IF IsSome(campaignId) THEN Some(Normalized(Val(campaignId))) ELSE None

\* C31: within one time bucket, generateKey and generateStableKey give the
\* same key for (e, c, a) and for (trim(lower(e)), trim(lower(c)), a).
C31_KeyIgnoresCaseAndSpace ==
  keyLast.status = "RETURNED" =>
    /\ keyLast.key = generateKey(Normalized(keyLast.email), NormalizedCampaign(keyLast.campaignId),
                                 keyLast.action, keyLast.windowMinutes, keyLast.at)
    /\ keyLast.stableKey = generateStableKey(Normalized(keyLast.email),
                                             NormalizedCampaign(keyLast.campaignId),
                                             keyLast.action)

\* An email with a leading blank and a capital, a campaign id with a capital
\* and a trailing blank, in the second one-minute bucket.
C31_Witness ==
  /\ keyLast.status = "RETURNED"
  /\ keyLast.email = <<" ", "A">>
  /\ keyLast.campaignId = Some(<<"A", " ">>)
  /\ keyLast.windowMinutes = 1 /\ keyLast.at = 60
  /\ keyLast.key = Sha256(<<(<<"a">>), (<<"a">>), LowerAction(keyLast.action), 60000>>)

\* The email with its letters in lower case.
LowerEmail(e) == [local |-> LowerStr(e.local), domain |-> LowerStr(e.domain)]
SameButCase(r1, r2) ==
  /\ req[r1].dto.email # req[r2].dto.email
  /\ LowerEmail(req[r1].dto.email) = LowerEmail(req[r2].dto.email)
  /\ req[r1].dto.campaign_id = req[r2].dto.campaign_id

\* C32 as stated: two ingests whose emails differ only in letter case, with
\* the same campaign id, return the same lead, and one row exists for them.
C32_Original ==
  \A r1, r2 \in 1..MaxRequests :
    (/\ req[r1].pc = "returned" /\ req[r2].pc = "returned"
     /\ SameButCase(r1, r2))
      => /\ req[r1].result = req[r2].result
         /\ Cardinality({id \in DOMAIN leads :
                           /\ LowerEmail(leads[id].email) = LowerEmail(req[r1].dto.email)
                           /\ leads[id].campaignId = req[r1].dto.campaign_id}) = 1

(* ---------------------------------------------------------------------- *)
(* Properties of the order of the gates and of the limiter's counting      *)
(* ---------------------------------------------------------------------- *)
\* C33 as stated: the context checks come before the limiter, so an
\* invocation (analysis not REJECTED) whose lead fails a context check
\* returns BLOCKED and leaves the counters of all tiers as they were.
C33_Original ==
  (Invoked /\ mcpLast.ai.grounding_status # "REJECTED" /\ LeadReasons # <<>>) =>
    /\ mcpLast.status = "BLOCKED"
    /\ mcpLast.tiersAfter = mcpLast.tiersBefore

\* The invocation reached checkLimits and the Redis round trips succeeded.
LimiterCounted ==
  /\ Invoked
  /\ mcpLast.ai.grounding_status # "REJECTED"
  /\ redisClient /\ mcpLast.up

\* C39: a checkLimits call with a reachable back end raises the per-lead and
\* the global counter of the current window by exactly one each, and the
\* per-account counter too when the lead's email gives an account id,
\* whether the call is allowed or denied.
C39_EveryTierCounts ==
  LimiterCounted =>
    /\ mcpLast.tiersAfter.lead = mcpLast.tiersBefore.lead + 1
    /\ mcpLast.tiersAfter.global = mcpLast.tiersBefore.global + 1
    /\ mcpLast.tiersAfter.account =
         IF mcpLast.lead.email = NoEmail THEN mcpLast.tiersBefore.account
         ELSE mcpLast.tiersBefore.account + 1

\* A call denied by the per-account tier alone, while the per-lead and the
\* global tier still have room: their counters went up all the same.
C39_Witness ==
  /\ LimiterCounted
  /\ mcpLast.status = "RATE_LIMITED"
  /\ mcpLast.tiersBefore.account >= PerAccountLimit
  /\ mcpLast.tiersBefore.lead < PerLeadLimit
  /\ mcpLast.tiersBefore.global < GlobalLimit
  /\ mcpLast.tiersAfter.lead = mcpLast.tiersBefore.lead + 1
  /\ mcpLast.tiersAfter.global = mcpLast.tiersBefore.global + 1

\* C38 as stated: a COMPLETED invocation for an analysis that is not REJECTED
\* has executed upsert_lead with success.
C38_Original ==
  (Invoked /\ mcpLast.status = "COMPLETED" /\ mcpLast.ai.grounding_status # "REJECTED") =>
    /\ \E i \in 1..Len(mcpLast.results) :
         mcpLast.results[i].tool = "upsert_lead" /\ mcpLast.results[i].success
    /\ \E i \in 1..Len(mcpLast.executed) : mcpLast.executed[i] = "upsert_lead"

(* ---------------------------------------------------------------------- *)
(* Properties of redelivery, the missing lead and ingest                   *)
(* ---------------------------------------------------------------------- *)
\* C36 as stated: once the analysis outputs of a lead are persisted, no
\* later step changes them.
C36_Original ==
  [][\A id \in DOMAIN leads :
       IsSome(leads[id].analysis) => leads'[id].analysis = leads[id].analysis]_vars

\* A create call has saved the lead and has yet to enqueue its job.
EnqueuePending(id) ==
  \E r \in 1..MaxRequests : req[r].pc = "enqueue" /\ req[r].result = Some(id)

\* C37 as stated, in the form a finite run refutes: ingesting the pair again
\* is the step after which the job is to exist, so once a create call has
\* returned a lead and no call is still about to enqueue it, a
\* lead-processing job for that lead has been enqueued.
C37_Original ==
  \A r \in 1..MaxRequests :
    (req[r].pc = "returned" /\ ~EnqueuePending(Val(req[r].result))) =>
      \E j \in DOMAIN jobs : jobs[j].leadId = Val(req[r].result)

\* C35 as stated: when the lookup gave the validator a company record and the
\* analysis is not REJECTED, the MCP invocation of the job, if it completes,
\* has planned and executed sync_firmographics.
C35_Original ==
  \A j \in DOMAIN jobs :
    (/\ jobs[j].pc = "mcp" /\ jobs[j].mcpStatus = "COMPLETED"
     /\ mcpLast.lead.id = jobs[j].leadId
     /\ IsSome(jobs[j].enrichment)
     /\ Val(jobs[j].ai).grounding_status # "REJECTED")
      => /\ \E i \in 1..Len(Val(mcpLast.planned)) : Val(mcpLast.planned)[i] = "sync_firmographics"
         /\ \E i \in 1..Len(mcpLast.executed) : mcpLast.executed[i] = "sync_firmographics"

\* C34 as stated: a job whose attempt ended with 'Lead ... not found' is
\* failed for good; the queue does not hand it out again.
C34_Original ==
  \A j \in DOMAIN jobs :
    jobs[j].lastError = "Lead not found" => jobs[j].state = "failed"

\* C40 as stated: with several instances listening, a job that has exhausted
\* its attempts has one entry in the dead-letter queue once its 'failed'
\* event has been handled everywhere.
C40_Original ==
  \A j \in DOMAIN jobs :
    (/\ instances > 1
     /\ Exhausted(j)
     /\ j \notin failedEvents /\ j \notin peerEvents)
      => Cardinality(DlqEntriesOf(j)) = 1

====
